---- MODULE Spec2Model ----
(***************************************************************************)
(* Model of the ASD-AITuber API backend: the keyword emotion classifier    *)
(* (EmotionService), the dialogue engine with its in-memory message log    *)
(* (ChatService) and the four chat endpoints that call them.               *)
(*                                                                         *)
(* Text is modelled by TLA+ strings; substring tests, lower-casing and     *)
(* concatenation are computed on the characters.  Random scores are in    *)
(* hundredths, normalised scores are fractions [num, den].                 *)
(***************************************************************************)
EXTENDS Integers, Sequences, FiniteSets, TLC

VARIABLES
    messages,   \* ChatService.messages of the global chat_service instance
    nextId,     \* source of fresh message ids (uuid.uuid4)
    pairs,      \* history: <<user id, assistant id>> of every completed call
    lastCall,   \* the endpoint call handled last and its input
    result,     \* the HTTP response of the call handled last
    pc,         \* position of each in-flight process_message coroutine
    local       \* local variables of each in-flight process_message coroutine

vars == <<messages, nextId, pairs, lastCall, result, pc, local>>

-----------------------------------------------------------------------------
(* Bounds *)

MaxId == 4

Procs == {1, 2}

Omitted == "<omitted>"

NoValue == "<none>"

\* message contents a client sends ("" is rejected by validation)
Contents ==
    { "hello", "Hello, how are you?", "I hate this", "I am very happy today",
      "so sad, what do you mean", "THANKS, I was SCARED", "wow gross",
      "yuck, how are you", "interesting" }

\* texts sent to the emotion analysis
Texts ==
    Contents \cup { "", "sad and angry", "sad and scared", "amazing",
                    "terrible", "made" }

\* outcomes of random.uniform(0.7, 0.95), in hundredths
ConfidenceDraws == { 70, 95 }

\* message contents of the concurrent requests
ConcContents == { "hello", "I hate this" }

-----------------------------------------------------------------------------
(* Strings *)

UpperCase == "ABCDEFGHIJKLMNOPQRSTUVWXYZ"

LowerCase == "abcdefghijklmnopqrstuvwxyz"

\* one character of str.lower()
LowerChar(c) ==
    IF \E i \in 1..Len(UpperCase) : SubSeq(UpperCase, i, i) = c
    THEN LET i == CHOOSE j \in 1..Len(UpperCase) : SubSeq(UpperCase, j, j) = c
         IN  SubSeq(LowerCase, i, i)
    ELSE c

RECURSIVE Lower(_)
\* str.lower()
Lower(s) ==
    IF Len(s) = 0 THEN ""
    ELSE LowerChar(SubSeq(s, 1, 1)) \o Lower(SubSeq(s, 2, Len(s)))

\* Python's  k in s  on strings
Contains(k, s) ==
    \E i \in 1..(Len(s) - Len(k) + 1) : SubSeq(s, i, i + Len(k) - 1) = k

\* any(word in text for word in words)
AnyIn(words, text) ==
    \E n \in 1..Len(words) : Contains(words[n], text)

-----------------------------------------------------------------------------
(* app/models/chat.py *)

Emotion == { "joy", "anger", "sadness", "surprise", "fear", "disgust", "neutral" }

ASDNTMode == { "ASD", "NT" }

MessageRole == { "user", "assistant", "system" }

\* mutation: the content field without its min_length=1 constraint
ChatMessageRequestValid_NoMinLength(raw) ==
    /\ raw.emotion = Omitted \/ raw.emotion \in Emotion
    /\ raw.mode = Omitted \/ raw.mode \in ASDNTMode

\* ChatMessageRequest: pydantic validation of the request body (HTTP 422
\* when it fails)
ChatMessageRequestValid(raw) ==
    /\ Len(raw.content) >= 1
    /\ raw.emotion = Omitted \/ raw.emotion \in Emotion
    /\ raw.mode = Omitted \/ raw.mode \in ASDNTMode

\* ChatMessageRequest: the parsed request with its field defaults
ChatMessageRequest(raw) ==
         [ content |-> raw.content,
           emotion |-> IF raw.emotion = Omitted THEN "neutral" ELSE raw.emotion,
           mode    |-> IF raw.mode = Omitted THEN NoValue ELSE raw.mode ]

\* EmotionAnalysisRequest: text with min_length=1
EmotionAnalysisRequestValid(raw) == Len(raw.text) >= 1

\* ChatMessage(...)
ChatMessage(id, role, content, emotion, internal_emotion) ==
    [ id |-> id, role |-> role, content |-> content,
      emotion |-> emotion, internal_emotion |-> internal_emotion ]

-----------------------------------------------------------------------------
(* app/services/emotion_service.py *)

JoyWords == << "happy", "joy", "great", "wonderful", "amazing", "love", "excited" >>

SadnessWords == << "sad", "sorry", "bad", "terrible", "awful", "cry", "hurt" >>

AngerWords == << "angry", "mad", "furious", "hate", "stupid", "annoying" >>

FearWords == << "scared", "afraid", "worried", "anxious", "nervous", "fear" >>

SurpriseWords == << "wow", "amazing", "surprised", "unbelievable", "shocked" >>

DisgustWords == << "disgusting", "gross", "yuck", "terrible", "awful" >>

\* mutation: the anger keywords tested before the sadness keywords
analyze_emotion_AngerFirst(text) ==
    LET text_lower == Lower(text) IN
    IF AnyIn(JoyWords, text_lower) THEN "joy"
    ELSE IF AnyIn(AngerWords, text_lower) THEN "anger"
    ELSE IF AnyIn(SadnessWords, text_lower) THEN "sadness"
    ELSE IF AnyIn(FearWords, text_lower) THEN "fear"
    ELSE IF AnyIn(SurpriseWords, text_lower) THEN "surprise"
    ELSE IF AnyIn(DisgustWords, text_lower) THEN "disgust"
    ELSE "neutral"

\* EmotionService.analyze_emotion
analyze_emotion(text) ==
    LET text_lower == Lower(text) IN
    IF AnyIn(JoyWords, text_lower) THEN "joy"
    ELSE IF AnyIn(SadnessWords, text_lower) THEN "sadness"
    ELSE IF AnyIn(AngerWords, text_lower) THEN "anger"
    ELSE IF AnyIn(FearWords, text_lower) THEN "fear"
    ELSE IF AnyIn(SurpriseWords, text_lower) THEN "surprise"
    ELSE IF AnyIn(DisgustWords, text_lower) THEN "disgust"
    ELSE "neutral"

RECURSIVE SumOver(_, _)
\* sum(scores.values())
SumOver(scores, keys) ==
    IF keys = {} THEN 0
    ELSE LET k == CHOOSE x \in keys : TRUE
         IN  scores[k] + SumOver(scores, keys \ {k})

\* EmotionService.analyze_emotion_with_confidence; draws are the values of
\* random.uniform(0.1, 0.3) per label and conf that of random.uniform(0.7, 0.95),
\* in hundredths.  A float is the fraction num/den.
analyze_emotion_with_confidence(text, draws, conf) ==
    LET emotion    == analyze_emotion(text)
        scores     == [ e \in Emotion |-> IF e = emotion THEN conf ELSE draws[e] ]
        total      == SumOver(scores, Emotion)
        normalized == [ e \in Emotion |-> [ num |-> scores[e], den |-> total ] ]
    IN  [ emotion    |-> emotion,
          confidence |-> [ num |-> conf, den |-> 100 ],
          scores     |-> normalized ]

-----------------------------------------------------------------------------
(* app/services/chat_service.py *)

\* the responses dict of _generate_asd_response, in insertion order
AsdResponses ==
    << << "hello", "Hello. How can I help you?" >>,
       << "how are you", "I am functioning normally. Thank you for asking." >>,
       << "what do you mean", "I mean exactly what I said. Could you be more specific about what part you don't understand?" >>,
       << "thanks", "You're welcome." >> >>

\* the responses dict of _generate_nt_response, in insertion order
NtResponses ==
    << << "hello", "Hi there! Great to see you! How's your day going?" >>,
       << "how are you", "I'm doing wonderful, thanks for asking! How about you?" >>,
       << "what do you mean", "Oh, I can see how that might be confusing! Let me explain it differently..." >>,
       << "thanks", "Aww, you're so sweet! Happy to help anytime!" >> >>

\* for key, response in responses.items(): if key in content_lower: return response
\* (the index of the entry that returns, 0 when the loop falls through)
FirstKeyIn(responses, content_lower) ==
    IF \E n \in 1..Len(responses) : Contains(responses[n][1], content_lower)
    THEN CHOOSE n \in 1..Len(responses) :
            /\ Contains(responses[n][1], content_lower)
            /\ \A m \in 1..(n - 1) : ~Contains(responses[m][1], content_lower)
    ELSE 0

\* mutation: the keys tested against the content as sent, not lower-cased
generate_asd_response_NoLower(content) ==
    LET n == FirstKeyIn(AsdResponses, content) IN
    IF n # 0 THEN AsdResponses[n][2]
    ELSE "I understand you said: '" \o content
            \o "'. Could you please clarify what you would like me to do?"

\* ChatService._generate_asd_response
generate_asd_response(content) ==
    LET n == FirstKeyIn(AsdResponses, Lower(content)) IN
    IF n # 0 THEN AsdResponses[n][2]
    ELSE "I understand you said: '" \o content
            \o "'. Could you please clarify what you would like me to do?"

\* mutation: the social fallback echoing the content as the direct one does
generate_nt_response_Echo(content) ==
    LET n == FirstKeyIn(NtResponses, Lower(content)) IN
    IF n # 0 THEN NtResponses[n][2]
    ELSE "That's really interesting! I'd love to hear more about '" \o content \o "'."

\* ChatService._generate_nt_response
generate_nt_response(content) ==
    LET n == FirstKeyIn(NtResponses, Lower(content)) IN
    IF n # 0 THEN NtResponses[n][2]
    ELSE "That's really interesting! I'd love to hear more about what you're thinking."

\* mutation: the fear branch missing
adjust_expressed_emotion_NoFear(internal_emotion) ==
    IF internal_emotion = "sadness" THEN "neutral"
    ELSE IF internal_emotion = "anger" THEN "neutral"
    ELSE internal_emotion

\* ChatService._adjust_expressed_emotion
adjust_expressed_emotion(internal_emotion) ==
    IF internal_emotion = "sadness" THEN "neutral"
    ELSE IF internal_emotion = "anger" THEN "neutral"
    ELSE IF internal_emotion = "fear" THEN "neutral"
    ELSE internal_emotion

\* mutation: the masking applied in both modes
expressed_emotion_of_AlwaysAdjusted(mode, internal_emotion) ==
    adjust_expressed_emotion(internal_emotion)

\* process_message, mode branch: the expressed emotion
expressed_emotion_of(mode, internal_emotion) ==
    IF mode = "ASD" THEN internal_emotion
    ELSE adjust_expressed_emotion(internal_emotion)

\* process_message, mode branch: the response text
response_text_of(mode, content) ==
    IF mode = "ASD" THEN generate_asd_response(content)
    ELSE generate_nt_response(content)

\* mutation: the user message built but never appended
process_message_UserNotStored(msgs, uid, aid, request, mode) ==
    LET response_text    == response_text_of(mode, request.content)
        internal_emotion == analyze_emotion(request.content)
        expressed        == expressed_emotion_of(mode, internal_emotion)
        ai_message       == ChatMessage(aid, "assistant", response_text,
                                        expressed, internal_emotion)
    IN  [ messages |-> Append(msgs, ai_message),
          response |-> [ message          |-> response_text,
                         emotion          |-> expressed,
                         internal_emotion |-> internal_emotion ] ]

\* mutation: the user message stored with the emotion inferred from its content
process_message_UserEmotionInferred(msgs, uid, aid, request, mode) ==
    LET response_text    == response_text_of(mode, request.content)
        internal_emotion == analyze_emotion(request.content)
        expressed        == expressed_emotion_of(mode, internal_emotion)
        user_message     == ChatMessage(uid, "user", request.content,
                                        internal_emotion, NoValue)
        ai_message       == ChatMessage(aid, "assistant", response_text,
                                        expressed, internal_emotion)
    IN  [ messages |-> Append(Append(msgs, user_message), ai_message),
          response |-> [ message          |-> response_text,
                         emotion          |-> expressed,
                         internal_emotion |-> internal_emotion ] ]

\* ChatService.process_message run without interruption: the new log and the
\* ChatMessageResponse; uid and aid are the two uuid4 values it draws
process_message(msgs, uid, aid, request, mode) ==
    LET user_message     == ChatMessage(uid, "user", request.content,
                                        request.emotion, NoValue)
        stored           == Append(msgs, user_message)
        response_text    == response_text_of(mode, request.content)
        internal_emotion == analyze_emotion(request.content)
        expressed        == expressed_emotion_of(mode, internal_emotion)
        ai_message       == ChatMessage(aid, "assistant", response_text,
                                        expressed, internal_emotion)
    IN  [ messages |-> Append(stored, ai_message),
          response |-> [ message          |-> response_text,
                         emotion          |-> expressed,
                         internal_emotion |-> internal_emotion ] ]

\* ChatService.get_history
get_history(msgs) == msgs

\* mutation: only the oldest message removed
clear_history_DropOldest(msgs) ==
    [ messages |-> IF msgs = << >> THEN << >> ELSE Tail(msgs), success |-> TRUE ]

\* ChatService.clear_history: the new log and the returned flag
clear_history(msgs) == [ messages |-> << >>, success |-> TRUE ]

-----------------------------------------------------------------------------
(* State after import: chat_service = ChatService(), no request handled *)

Init ==
    /\ messages = << >>
    /\ nextId = 1
    /\ pairs = {}
    /\ lastCall = [ op |-> "none" ]
    /\ result = [ status |-> 0 ]
    /\ pc = [ p \in Procs |-> "idle" ]
    /\ local = [ p \in Procs |-> [ op |-> "none" ] ]

-----------------------------------------------------------------------------
(* app/api/v1/endpoints/chat.py, one request handled at a time *)

\* POST /message
SendMessage(raw) ==
    /\ lastCall' = [ op |-> "send_message", raw |-> raw ]
    /\ IF ~ChatMessageRequestValid(raw)
       THEN /\ result' = [ status |-> 422 ]
            /\ UNCHANGED <<messages, nextId, pairs>>
       ELSE LET request == ChatMessageRequest(raw)
                mode    == IF request.mode = NoValue THEN "ASD" ELSE request.mode
                out     == process_message(messages, nextId, nextId + 1, request, mode)
            IN  /\ nextId + 1 <= MaxId
                /\ messages' = out.messages
                /\ nextId' = nextId + 2
                /\ pairs' = pairs \cup { <<nextId, nextId + 1>> }
                /\ result' = [ status |-> 200, body |-> out.response ]
    /\ UNCHANGED <<pc, local>>

\* GET /history
GetChatHistory ==
    /\ lastCall' = [ op |-> "get_chat_history" ]
    /\ result' = [ status |-> 200, messages |-> get_history(messages) ]
    /\ UNCHANGED <<messages, nextId, pairs, pc, local>>

\* DELETE /history
ClearChatHistory ==
    LET out == clear_history(messages) IN
    /\ lastCall' = [ op |-> "clear_chat_history" ]
    /\ messages' = out.messages
    /\ result' = [ status |-> 200, success |-> out.success ]
    /\ UNCHANGED <<nextId, pairs, pc, local>>

\* POST /analyze-emotion
AnalyzeEmotion(raw, draws, conf) ==
    /\ lastCall' = [ op |-> "analyze_emotion", raw |-> raw ]
    /\ IF ~EmotionAnalysisRequestValid(raw)
       THEN result' = [ status |-> 422 ]
       ELSE LET out == analyze_emotion_with_confidence(raw.text, draws, conf)
            IN  result' = [ status |-> 200, emotion |-> out.emotion,
                            confidence |-> out.confidence, scores |-> out.scores ]
    /\ UNCHANGED <<messages, nextId, pairs, pc, local>>

\* request bodies a client sends: well-formed ones, and malformed ones with
\* empty content or an emotion outside the enum
RawRequests ==
    [ content : Contents, emotion : { Omitted, "joy" }, mode : { Omitted, "ASD", "NT" } ]
    \cup { [ content |-> "", emotion |-> Omitted, mode |-> Omitted ],
           [ content |-> "", emotion |-> "joy", mode |-> "NT" ],
           [ content |-> "hello", emotion |-> "invalid_emotion", mode |-> Omitted ],
           [ content |-> "I hate this", emotion |-> "invalid_emotion", mode |-> "NT" ] }

\* outcomes of the per-label random.uniform(0.1, 0.3) draws, in hundredths
DrawSets ==
    { [ e \in Emotion |-> 10 ],
      [ e \in Emotion |-> 30 ],
      [ e \in Emotion |-> IF e \in { "joy", "fear", "neutral" } THEN 10 ELSE 30 ],
      [ e \in Emotion |-> IF e \in { "joy", "anger" } THEN 30 ELSE 20 ] }

Next ==
    \/ \E raw \in RawRequests : SendMessage(raw)
    \/ GetChatHistory
    \/ ClearChatHistory

Spec == Init /\ [][Next]_vars

\* a direct call of EmotionService.analyze_emotion(text), any string
AnalyzeEmotionCall(text) ==
    /\ lastCall' = [ op |-> "analyze_emotion_call", text |-> text ]
    /\ result' = [ status |-> 0, emotion |-> analyze_emotion(text) ]
    /\ UNCHANGED <<messages, nextId, pairs, pc, local>>

NextEmotion ==
    \/ \E text \in Texts : AnalyzeEmotionCall(text)
    \/ \E text \in Texts, draws \in DrawSets, conf \in ConfidenceDraws :
          AnalyzeEmotion([ text |-> text ], draws, conf)

SpecEmotion == Init /\ [][NextEmotion]_vars

-----------------------------------------------------------------------------
(* chat_service.process_message as a coroutine of the shared chat_service:   *)
(* several requests in flight, control may pass to another request at each   *)
(* await of process_message.                                                 *)

Idle == [ op |-> "none" ]

InFlight == { p \in Procs : pc[p] # "idle" }

\* lines 33-40: build the user message and append it
StoreUserMessage(p, request, mode) ==
    /\ pc[p] = "idle"
    /\ nextId + 1 + Cardinality(InFlight) <= MaxId
    /\ messages' = Append(messages, ChatMessage(nextId, "user", request.content,
                                                request.emotion, NoValue))
    /\ nextId' = nextId + 1
    /\ local' = [ local EXCEPT ![p] =
                    [ op |-> "process_message", request |-> request, mode |-> mode,
                      user_id |-> nextId, response_text |-> NoValue,
                      internal_emotion |-> NoValue, expressed_emotion |-> NoValue ] ]
    /\ pc' = [ pc EXCEPT ![p] = "generate" ]
    /\ UNCHANGED <<pairs, lastCall, result>>

\* line 44 / line 48: await self._generate_asd_response / _generate_nt_response
GenerateResponse(p) ==
    /\ pc[p] = "generate"
    /\ local' = [ local EXCEPT ![p].response_text =
                    response_text_of(local[p].mode, local[p].request.content) ]
    /\ pc' = [ pc EXCEPT ![p] = "analyze" ]
    /\ UNCHANGED <<messages, nextId, pairs, lastCall, result>>

\* lines 45-46 / line 49: await self.emotion_service.analyze_emotion; in ASD
\* mode the expressed emotion is assigned without a further await
AnalyzeInternalEmotion(p) ==
    /\ pc[p] = "analyze"
    /\ LET internal_emotion == analyze_emotion(local[p].request.content) IN
       IF local[p].mode = "ASD"
       THEN /\ local' = [ local EXCEPT ![p].internal_emotion = internal_emotion,
                                       ![p].expressed_emotion = internal_emotion ]
            /\ pc' = [ pc EXCEPT ![p] = "store" ]
       ELSE /\ local' = [ local EXCEPT ![p].internal_emotion = internal_emotion ]
            /\ pc' = [ pc EXCEPT ![p] = "adjust" ]
    /\ UNCHANGED <<messages, nextId, pairs, lastCall, result>>

\* line 50: await self._adjust_expressed_emotion
AdjustExpressedEmotion(p) ==
    /\ pc[p] = "adjust"
    /\ local' = [ local EXCEPT ![p].expressed_emotion =
                    adjust_expressed_emotion(local[p].internal_emotion) ]
    /\ pc' = [ pc EXCEPT ![p] = "store" ]
    /\ UNCHANGED <<messages, nextId, pairs, lastCall, result>>

\* lines 53-67: build the assistant message, append it, return the response
StoreAiMessage(p) ==
    /\ pc[p] = "store"
    /\ messages' = Append(messages,
                          ChatMessage(nextId, "assistant", local[p].response_text,
                                      local[p].expressed_emotion,
                                      local[p].internal_emotion))
    /\ nextId' = nextId + 1
    /\ pairs' = pairs \cup { <<local[p].user_id, nextId>> }
    /\ lastCall' = [ op |-> "process_message", proc |-> p ]
    /\ result' = [ status |-> 200,
                   body |-> [ message          |-> local[p].response_text,
                              emotion          |-> local[p].expressed_emotion,
                              internal_emotion |-> local[p].internal_emotion ] ]
    /\ local' = [ local EXCEPT ![p] = Idle ]
    /\ pc' = [ pc EXCEPT ![p] = "idle" ]

ConcRequests == [ content : ConcContents, emotion : { "neutral" }, mode : { NoValue } ]

NextConc ==
    \/ \E p \in Procs, request \in ConcRequests, mode \in ASDNTMode :
          StoreUserMessage(p, request, mode)
    \/ \E p \in Procs : GenerateResponse(p)
    \/ \E p \in Procs : AnalyzeInternalEmotion(p)
    \/ \E p \in Procs : AdjustExpressedEmotion(p)
    \/ \E p \in Procs : StoreAiMessage(p)
    \/ ClearChatHistory

SpecConc == Init /\ [][NextConc]_vars

-----------------------------------------------------------------------------
(* Properties *)

\* the last request handled was a POST /message that reached process_message
Processed == lastCall.op = "send_message" /\ result.status = 200

\* the mode process_message ran in
ModeOfCall == IF lastCall.raw.mode = Omitted THEN "ASD" ELSE lastCall.raw.mode

LastMessage == messages[Len(messages)]

Suppressed == { "sadness", "anger", "fear" }

\* C1: after process(content, mode=direct), whatever the content and the prior
\* history, the reply's expressed emotion equals its internal emotion, and the
\* assistant message appended to the log carries the same two equal emotions.
C1_DirectNoMasking ==
    (Processed /\ ModeOfCall = "ASD") =>
        /\ result.body.emotion = result.body.internal_emotion
        /\ Len(messages) >= 1
        /\ LastMessage.role = "assistant"
        /\ LastMessage.emotion = result.body.emotion
        /\ LastMessage.internal_emotion = result.body.internal_emotion

\* a direct-mode call on a non-empty history whose internal emotion is one that
\* social mode would mask
C1_Witness ==
    /\ Processed /\ ModeOfCall = "ASD"
    /\ Len(messages) = 4
    /\ result.body.internal_emotion \in Suppressed
    /\ LastMessage.emotion = result.body.internal_emotion

\* C2: after process(content, mode=social) the internal emotion of the reply is
\* the classifier's label, unaltered; the expressed emotion is neutral when that
\* label is sadness, anger or fear, and equals it for joy, surprise, disgust
\* and neutral.
C2_SocialSuppression ==
    (Processed /\ ModeOfCall = "NT") =>
        LET internal == result.body.internal_emotion IN
        /\ internal = analyze_emotion(lastCall.raw.content)
        /\ internal \in Suppressed => result.body.emotion = "neutral"
        /\ internal \in { "joy", "surprise", "disgust", "neutral" } =>
              result.body.emotion = internal

\* process("I hate this", social): internal anger, expressed neutral
C2_Witness ==
    /\ Processed /\ ModeOfCall = "NT"
    /\ lastCall.raw.content = "I hate this"
    /\ result.body.internal_emotion = "anger"
    /\ result.body.emotion = "neutral"

\* the categories in their fixed priority order, with their keywords
CategoryOrder ==
    << << "joy", JoyWords >>, << "sadness", SadnessWords >>,
       << "anger", AngerWords >>, << "fear", FearWords >>,
       << "surprise", SurpriseWords >>, << "disgust", DisgustWords >> >>

\* category n has a keyword that is a substring of the lower-cased text
CategoryMatches(n, text) ==
    \E k \in 1..Len(CategoryOrder[n][2]) :
        Contains(CategoryOrder[n][2][k], Lower(text))

\* C3: classify(text) is the label of the first category, in the order joy,
\* sadness, anger, fear, surprise, disgust, that has a keyword occurring in the
\* lower-cased text, and neutral when no category matches (the empty string
\* included).
C3_FirstCategoryWins ==
    lastCall.op = "analyze_emotion_call" =>
        LET text == lastCall.text IN
        /\ \A n \in 1..Len(CategoryOrder) :
              (/\ CategoryMatches(n, text)
               /\ \A m \in 1..(n - 1) : ~CategoryMatches(m, text))
              => result.emotion = CategoryOrder[n][1]
        /\ (\A n \in 1..Len(CategoryOrder) : ~CategoryMatches(n, text))
              => result.emotion = "neutral"
        /\ text = "" => result.emotion = "neutral"

\* a text with keywords of two categories, classified as the earlier one
C3_Witness ==
    /\ lastCall.op = "analyze_emotion_call"
    /\ \E n \in 1..Len(CategoryOrder) :
          /\ result.emotion = CategoryOrder[n][1]
          /\ CategoryMatches(n, lastCall.text)
          /\ \E m \in (n + 1)..Len(CategoryOrder) : CategoryMatches(m, lastCall.text)

\* C4: every completed process() call, in either mode, trigger or fallback,
\* lengthens the history by exactly 2: a user message with the call's content,
\* then an assistant message with the returned reply text; the earlier entries
\* are unchanged.
C4_TwoAppends ==
    [][ (lastCall'.op = "send_message" /\ result'.status = 200) =>
          LET n == Len(messages) IN
          /\ Len(messages') = n + 2
          /\ SubSeq(messages', 1, n) = messages
          /\ messages'[n + 1].role = "user"
          /\ messages'[n + 1].content = lastCall'.raw.content
          /\ messages'[n + 2].role = "assistant"
          /\ messages'[n + 2].content = result'.body.message ]_vars

\* a social-mode call that took the fallback reply, on a non-empty history
C4_Witness ==
    /\ Processed /\ ModeOfCall = "NT"
    /\ Len(messages) = 4
    /\ \A n \in 1..Len(NtResponses) :
          ~Contains(NtResponses[n][1], Lower(lastCall.raw.content))
    /\ messages[3].role = "user"
    /\ messages[3].content = lastCall.raw.content
    /\ messages[4].role = "assistant"

\* C5: a send-message request with empty content, or with an emotion outside
\* the seven labels, is answered with a validation error and leaves the
\* message log exactly as it was.
C5_InvalidRejected ==
    [][ (/\ lastCall'.op = "send_message"
         /\ \/ lastCall'.raw.content = ""
            \/ lastCall'.raw.emotion \notin (Emotion \cup { Omitted })) =>
          /\ result'.status = 422
          /\ messages' = messages ]_vars

\* an empty-content request rejected while the log holds messages
C5_Witness ==
    /\ lastCall.op = "send_message"
    /\ lastCall.raw.content = ""
    /\ result.status = 422
    /\ Len(messages) = 2

\* C6: clear_history() returns success and leaves the log empty whatever it
\* held; a get_history() directly after it returns the empty sequence; a second
\* clear_history() in a row changes neither the state nor the result.
C6_ClearHistory ==
    [][ /\ lastCall'.op = "clear_chat_history" =>
            /\ messages' = << >>
            /\ result'.success = TRUE
            /\ lastCall.op = "clear_chat_history" =>
                  (messages' = messages /\ result' = result)
        /\ (lastCall.op = "clear_chat_history" /\ lastCall'.op = "get_chat_history") =>
            result'.messages = << >> ]_vars

\* the log has been cleared after messages had been appended to it
C6_Witness ==
    /\ lastCall.op = "clear_chat_history"
    /\ nextId > 1
    /\ messages = << >>
    /\ result.success = TRUE

\* the trigger phrases, in table order
Triggers == << "hello", "how are you", "what do you mean", "thanks" >>

NtFallback ==
    "That's really interesting! I'd love to hear more about what you're thinking."

\* C7 as stated: in social mode, when no trigger phrase is a substring of the
\* content, the reply text contains the content verbatim.
C7_SocialFallbackEchoes ==
    (/\ Processed /\ ModeOfCall = "NT"
     /\ \A n \in 1..Len(Triggers) : ~Contains(Triggers[n], lastCall.raw.content)) =>
        Contains(lastCall.raw.content, result.body.message)

\* C7 amended: in social mode, when no trigger phrase is a substring of the
\* lower-cased content, the reply is one fixed sentence, the same for every
\* content; the content is not echoed into it.
C7_SocialFallbackFixed ==
    (/\ Processed /\ ModeOfCall = "NT"
     /\ \A n \in 1..Len(Triggers) :
           ~Contains(Triggers[n], Lower(lastCall.raw.content))) =>
        /\ result.body.message = NtFallback
        /\ LastMessage.content = NtFallback

\* a social-mode fallback reply that does not contain the content
C7_Witness ==
    /\ Processed /\ ModeOfCall = "NT"
    /\ \A n \in 1..Len(Triggers) :
          ~Contains(Triggers[n], Lower(lastCall.raw.content))
    /\ ~Contains(lastCall.raw.content, result.body.message)

\* a = b for fractions
FracEq(a, b) == a.num * b.den = b.num * a.den

\* a <= b for fractions with positive denominators
FracLeq(a, b) == a.num * b.den <= b.num * a.den

\* C8: classify_with_confidence(text) returns as confidence the normalized
\* score of the primary label, confidence = scores[primary], which is the
\* maximum entry of the returned map.
C8_ConfidenceIsNormalizedScore ==
    (lastCall.op = "analyze_emotion" /\ result.status = 200) =>
        /\ FracEq(result.confidence, result.scores[result.emotion])
        /\ \A e \in Emotion :
              FracLeq(result.scores[e], result.scores[result.emotion])

\* the reply of the first trigger, in table order, that is a substring of text;
\* the clarification template around content when there is none
DirectReply(text, content) ==
    IF \E n \in 1..Len(Triggers) : Contains(Triggers[n], text)
    THEN LET n == CHOOSE k \in 1..Len(Triggers) :
                     /\ Contains(Triggers[k], text)
                     /\ \A m \in 1..(k - 1) : ~Contains(Triggers[m], text)
         IN  CASE n = 1 -> "Hello. How can I help you?"
               [] n = 2 -> "I am functioning normally. Thank you for asking."
               [] n = 3 -> "I mean exactly what I said. Could you be more specific about what part you don't understand?"
               [] n = 4 -> "You're welcome."
    ELSE "I understand you said: '" \o content
            \o "'. Could you please clarify what you would like me to do?"

\* C9 as stated: in direct mode the reply is that of the first trigger, in
\* table order, whose phrase is a substring of the content, and the
\* clarification template echoing the content when no trigger is.
C9_DirectReplyExactSubstring ==
    (Processed /\ ModeOfCall = "ASD") =>
        result.body.message = DirectReply(lastCall.raw.content, lastCall.raw.content)

\* C9 amended: the triggers are matched against the lower-cased content (the
\* match ignores the case of the content); the fallback echoes the content as
\* it was sent.
C9_DirectReplyLowerCased ==
    (Processed /\ ModeOfCall = "ASD") =>
        /\ result.body.message =
              DirectReply(Lower(lastCall.raw.content), lastCall.raw.content)
        /\ LastMessage.content = result.body.message

\* a content with both "hello" and "how are you" answered with the hello reply
C9_Witness ==
    /\ Processed /\ ModeOfCall = "ASD"
    /\ Contains("hello", Lower(lastCall.raw.content))
    /\ Contains("how are you", Lower(lastCall.raw.content))
    /\ result.body.message = "Hello. How can I help you?"

\* the call of coroutine p has stored the user message with id uid and not
\* yet its assistant message
InProgress(uid) ==
    \E p \in Procs : pc[p] # "idle" /\ local[p].user_id = uid

DeclaredEmotion ==
    IF lastCall.raw.emotion = Omitted THEN "neutral" ELSE lastCall.raw.emotion

\* the log holds user and assistant messages only, in pairs; a user message
\* has no internal emotion, an assistant message has the classifier's label
\* of the user content it answers
LogWellFormed ==
    \A i \in 1..Len(messages) :
        /\ messages[i].role \in { "user", "assistant" }
        /\ messages[i].role = "user" => messages[i].internal_emotion = NoValue
        /\ messages[i].role = "assistant" =>
              /\ messages[i].internal_emotion \in Emotion
              /\ i > 1
              /\ messages[i - 1].role = "user"
              /\ messages[i].internal_emotion = analyze_emotion(messages[i - 1].content)

\* C11: in every state reached by process() (either mode) and clear_history()
\* calls, every assistant message has internal_emotion set to the classifier's
\* label of the paired user content, every user message has internal_emotion
\* unset and carries the emotion its caller declared (neutral when omitted),
\* not an inferred one, and no message has role system.  A user message gets
\* the declared emotion when it is appended, and no later call other than
\* clear_history changes a stored message.
C11_LogEmotions ==
    /\ [] LogWellFormed
    /\ [][ /\ (lastCall'.op = "send_message" /\ result'.status = 200) =>
                messages'[Len(messages) + 1].emotion =
                    (IF lastCall'.raw.emotion = Omitted THEN "neutral"
                     ELSE lastCall'.raw.emotion)
           /\ lastCall'.op # "clear_chat_history" =>
                SubSeq(messages', 1, Len(messages)) = messages ]_vars

\* a user message stored with the omitted emotion's default although the
\* classifier infers another label from its content, on a non-empty history
C11_Witness ==
    /\ Processed
    /\ Len(messages) = 4
    /\ lastCall.raw.emotion = Omitted
    /\ messages[3].role = "user"
    /\ messages[3].emotion = "neutral"
    /\ messages[3].internal_emotion = NoValue
    /\ messages[4].internal_emotion = analyze_emotion(messages[3].content)
    /\ messages[4].internal_emotion # DeclaredEmotion
    /\ messages[1].emotion = "joy"

=============================================================================
